---- MODULE Spec2Model ----
(***************************************************************************)
(* The auction / bidding subsystem of solana-artisan-plaza:                *)
(* BiddingService (src/src/services/biddingService.ts) over its two        *)
(* in-memory maps, with the payment adapter calls of SolanaService         *)
(* (processBidPayment, finalizeAuction, refundBid).                        *)
(*                                                                         *)
(* Amounts are JavaScript numbers in SOL; the model writes them in tenths  *)
(* of a SOL (20 is 2.0 SOL, 31 is 3.1 SOL): the service only compares      *)
(* them.  Time is Date.now() in milliseconds and advances in whole hours.  *)
(* An optional value (reservePrice?, highestBid?, publicKey) is the empty  *)
(* sequence when undefined and a one-element sequence when set.            *)
(* Every async method runs synchronously up to its first await; the code   *)
(* after the await runs as a second atomic step, and in between any other  *)
(* step may run.                                                           *)
(***************************************************************************)
EXTENDS Integers, Sequences, FiniteSets, TLC

VARIABLES
    auctions,    \* BiddingService.auctions: auction id (index) -> Auction
    bids,        \* BiddingService.bids: auction id (index) -> sequence of Bid
    suspended,   \* the calls waiting at an await, in the order they suspended
    now,         \* Date.now()
    refundCalls, \* bid id -> number of SolanaService.refundBid invocations
    settleCalls, \* auction id -> settlement invocations made by endAuction
    event,       \* what the last step returned and which adapter it invoked
    placedOver,  \* history: bid id -> the auction's price and highestBid just
                 \* before that bid was recorded
    nfts,        \* the "nfts" table: nft id -> [owner, listed]
    transactions,\* the "transactions" table, in insertion order
    purchases,   \* the purchaseNFT calls waiting at an await
    broadcast,   \* the number of signatures sendRawTransaction has returned
    confirmed    \* the signatures whose transfer connection.confirmTransaction
                 \* has confirmed

bvars == <<auctions, bids, suspended, now, refundCalls, settleCalls, placedOver>>

pvars == <<nfts, transactions, purchases, broadcast, confirmed>>

vars == <<auctions, bids, suspended, now, refundCalls, settleCalls, event, placedOver,
          nfts, transactions, purchases, broadcast, confirmed>>

\* ---------------------------------------------------------------- bounds
MaxAuctions == 1
MaxBids == 3
MaxSuspended == 2
MaxTime == 1
MaxRefunds == 2
MaxPurchases == 2

\* ---------------------------------------------------------------- inputs
None == <<>>
Some(v) == <<v>>
IsSet(opt) == opt # <<>>
Get(opt) == opt[1]

Disconnected == [connected |-> FALSE, publicKey |-> None, signTransaction |-> FALSE]
Alice == [connected |-> TRUE, publicKey |-> Some("alice"), signTransaction |-> TRUE]
Bob == [connected |-> TRUE, publicKey |-> Some("bob"), signTransaction |-> TRUE]
Wallets == {Disconnected, Alice, Bob}
Sellers == {Disconnected, Alice}
Bidders == {Disconnected, Alice}

StartingPrices == {20}
BidAmounts == {10, 30, 31}
ReservePrices == {None, Some(31)}
Durations == {0, 1}

AuctionIds == 1..MaxAuctions
BidIds == 1..MaxBids

MsPerHour == 60 * 60 * 1000

NftIds == {1}
SellerAddresses == {"seller", "invalid"}
Buyers == {Disconnected, Alice, Bob}

\* ---------------------------------------------------------------- helpers
NoEvent == [op |-> "init", result |-> "none", error |-> "none", adapter |-> "none"]

Ev(op, result, error, adapter) ==
    [op |-> op, result |-> result, error |-> error, adapter |-> adapter]

RECURSIVE SumLen(_)
SumLen(ss) == IF ss = <<>> THEN 0 ELSE Len(Head(ss)) + SumLen(Tail(ss))

RECURSIVE SumOver(_)
SumOver(f) ==
    IF DOMAIN f = {} THEN 0
    ELSE LET x == CHOOSE y \in DOMAIN f : TRUE
         IN  f[x] + SumOver([y \in DOMAIN f \ {x} |-> f[y]])

\* crypto.randomUUID() for a bid: a fresh id, here the number of bids so far + 1
FreshBidId == SumLen(bids) + 1

Remove(s, i) == SubSeq(s, 1, i - 1) \o SubSeq(s, i + 1, Len(s))

WalletReady(wallet) == wallet.connected /\ IsSet(wallet.publicKey)

Known(auctionId) == auctionId \in 1..Len(auctions)

\* the Bid object with this id in an auction's list (highestBid refers to it)
BidOf(a, bidId) == CHOOSE b \in {bids[a][i] : i \in 1..Len(bids[a])} : b.id = bidId

HighestBidOf(a) == BidOf(a, Get(auctions[a].highestBid))

Init ==
    /\ auctions = <<>>
    /\ bids = <<>>
    /\ suspended = <<>>
    /\ now = 0
    /\ refundCalls = [b \in BidIds |-> 0]
    /\ settleCalls = [a \in AuctionIds |-> 0]
    /\ event = NoEvent
    /\ placedOver = <<>>
    /\ nfts = [n \in NftIds |-> [owner |-> "seller", listed |-> TRUE]]
    /\ transactions = <<>>
    /\ purchases = <<>>
    /\ broadcast = 0
    /\ confirmed = {}

\* ---------------------------------------------------------------- createAuction
NewAuction(auctionId, wallet, startingPrice, durationHours, reservePrice) ==
    [id |-> auctionId,
     seller |-> Get(wallet.publicKey),
     startingPrice |-> startingPrice,
     currentPrice |-> startingPrice,
     reservePrice |-> reservePrice,
     startTime |-> now,
     endTime |-> now + durationHours * MsPerHour,
     status |-> "active",
     highestBid |-> None,
     totalBids |-> 0]

CreateAuction(wallet, startingPrice, durationHours, reservePrice) ==
    IF ~WalletReady(wallet)
    THEN /\ event' = Ev("createAuction", "null", "WalletNotConnected", "none")
         /\ UNCHANGED <<auctions, bids, suspended, now, refundCalls, settleCalls, placedOver>>
    ELSE /\ Len(auctions) < MaxAuctions
         /\ auctions' = Append(auctions,
                NewAuction(Len(auctions) + 1, wallet, startingPrice, durationHours, reservePrice))
         /\ bids' = Append(bids, <<>>)
         /\ event' = Ev("createAuction", "auction", "none", "none")
         /\ UNCHANGED <<suspended, now, refundCalls, settleCalls, placedOver>>

\* ---------------------------------------------------------------- placeBid
\* mutant: only a cancelled auction is refused, an ended one is not
NotActive_OnlyCancelled(auction) == auction.status = "cancelled"

\* mutant: the status is not checked at all
NotActive_Never(auction) == FALSE

NotActive(auction) == auction.status # "active"

\* mutant: the end time is never checked
Expired_Never(auction) == FALSE

\* mutant: a bid at the end time itself is refused
Expired_Inclusive(auction) == now >= auction.endTime

Expired(auction) == now > auction.endTime

\* mutant: the comparison is inverted
BidTooLow_Inverted(bidAmount, auction) == bidAmount >= auction.currentPrice

\* mutant: a bid equal to the current price is let through
BidTooLow_TiesAccepted(bidAmount, auction) == bidAmount < auction.currentPrice

BidTooLow(bidAmount, auction) == bidAmount <= auction.currentPrice

\* SolanaService.processBidPayment: false without a signing wallet, otherwise
\* true once the transfer is confirmed and false when any step of it throws
PaymentOutcomes(wallet) ==
    IF ~IsSet(wallet.publicKey) \/ ~wallet.signTransaction THEN {FALSE} ELSE {TRUE, FALSE}

Call(op, wallet, a, bidId, amount, price) ==
    [op |-> op, wallet |-> wallet, auction |-> a, bid |-> bidId,
     amount |-> amount, priceAtCall |-> price]

PendingBids == Len(SelectSeq(suspended, LAMBDA c : c.op = "placeBid"))

\* placeBid up to its await of processBidPayment
PlaceBid(wallet, auctionId, bidAmount) ==
    IF ~WalletReady(wallet)
    THEN /\ event' = Ev("placeBid", "null", "WalletNotConnected", "none")
         /\ UNCHANGED <<auctions, bids, suspended, now, refundCalls, settleCalls, placedOver>>
    ELSE IF ~Known(auctionId)
    THEN /\ event' = Ev("placeBid", "null", "AuctionNotFound", "none")
         /\ UNCHANGED <<auctions, bids, suspended, now, refundCalls, settleCalls, placedOver>>
    ELSE IF NotActive(auctions[auctionId])
    THEN /\ event' = Ev("placeBid", "null", "AuctionNotActive", "none")
         /\ UNCHANGED <<auctions, bids, suspended, now, refundCalls, settleCalls, placedOver>>
    ELSE IF Expired(auctions[auctionId])
    THEN /\ event' = Ev("placeBid", "null", "AuctionExpired", "none")
         /\ UNCHANGED <<auctions, bids, suspended, now, refundCalls, settleCalls, placedOver>>
    ELSE IF BidTooLow(bidAmount, auctions[auctionId])
    THEN /\ event' = Ev("placeBid", "null", "BidTooLow", "none")
         /\ UNCHANGED <<auctions, bids, suspended, now, refundCalls, settleCalls, placedOver>>
    ELSE /\ Len(suspended) < MaxSuspended
         /\ SumLen(bids) + PendingBids < MaxBids
         /\ suspended' = Append(suspended,
                Call("placeBid", wallet, auctionId, 0, bidAmount,
                     auctions[auctionId].currentPrice))
         /\ event' = Ev("placeBid", "pending", "none", "processBidPayment")
         /\ UNCHANGED <<auctions, bids, now, refundCalls, settleCalls, placedOver>>

NewBid(bidId, wallet, bidAmount) ==
    [id |-> bidId,
     bidder |-> Get(wallet.publicKey),
     amount |-> bidAmount,
     timestamp |-> now,
     status |-> "active"]

\* mutant: a recorded bid puts the auction back to active
CommitBid_Reactivates(auction, bid) ==
    [auction EXCEPT !.currentPrice = bid.amount,
                    !.highestBid = Some(bid.id),
                    !.totalBids = @ + 1,
                    !.status = "active"]

\* mutant: the price is not raised to the bid
CommitBid_KeepsPrice(auction, bid) ==
    [auction EXCEPT !.highestBid = Some(bid.id),
                    !.totalBids = @ + 1]

\* mutant: the bid is not counted
CommitBid_NoCount(auction, bid) ==
    [auction EXCEPT !.currentPrice = bid.amount,
                    !.highestBid = Some(bid.id)]

\* auction.currentPrice = bidAmount; auction.highestBid = bid; auction.totalBids++
CommitBid(auction, bid) ==
    [auction EXCEPT !.currentPrice = bid.amount,
                    !.highestBid = Some(bid.id),
                    !.totalBids = @ + 1]

\* mutant: the bid is counted before the payment result is read
PlaceBidResume_CountsFirst(i, success) ==
    LET c == suspended[i]
        bid == NewBid(FreshBidId, c.wallet, c.amount)
    IN  /\ c.op = "placeBid"
        /\ success \in PaymentOutcomes(c.wallet)
        /\ suspended' = Remove(suspended, i)
        /\ IF ~success
           THEN /\ event' = Ev("placeBid", "null", "PaymentFailed", "none")
                /\ auctions' = [auctions EXCEPT ![c.auction].totalBids = @ + 1]
                /\ UNCHANGED <<bids, now, refundCalls, settleCalls, placedOver>>
           ELSE /\ auctions' = [auctions EXCEPT ![c.auction] = CommitBid(@, bid)]
                /\ bids' = [bids EXCEPT ![c.auction] = Append(@, bid)]
                /\ event' = Ev("placeBid", "bid", "none", "none")
                /\ placedOver' = Append(placedOver,
                       [price |-> auctions[c.auction].currentPrice,
                        highestBid |-> auctions[c.auction].highestBid])
                /\ UNCHANGED <<now, refundCalls, settleCalls>>

\* mutant: the catch block throws the failure on to the caller
PlaceBidResume_Rethrows(i, success) ==
    LET c == suspended[i]
        bid == NewBid(FreshBidId, c.wallet, c.amount)
    IN  /\ c.op = "placeBid"
        /\ success \in PaymentOutcomes(c.wallet)
        /\ suspended' = Remove(suspended, i)
        /\ IF ~success
           THEN /\ event' = Ev("placeBid", "throws", "PaymentFailed", "none")
                /\ UNCHANGED <<auctions, bids, now, refundCalls, settleCalls, placedOver>>
           ELSE /\ auctions' = [auctions EXCEPT ![c.auction] = CommitBid(@, bid)]
                /\ bids' = [bids EXCEPT ![c.auction] = Append(@, bid)]
                /\ event' = Ev("placeBid", "bid", "none", "none")
                /\ placedOver' = Append(placedOver,
                       [price |-> auctions[c.auction].currentPrice,
                        highestBid |-> auctions[c.auction].highestBid])
                /\ UNCHANGED <<now, refundCalls, settleCalls>>

\* mutant: the bid that was highest until now is marked outbid
PlaceBidResume_MarksOutbid(i, success) ==
    LET c == suspended[i]
        bid == NewBid(FreshBidId, c.wallet, c.amount)
    IN  /\ c.op = "placeBid"
        /\ success \in PaymentOutcomes(c.wallet)
        /\ suspended' = Remove(suspended, i)
        /\ IF ~success
           THEN /\ event' = Ev("placeBid", "null", "PaymentFailed", "none")
                /\ UNCHANGED <<auctions, bids, now, refundCalls, settleCalls, placedOver>>
           ELSE /\ auctions' = [auctions EXCEPT ![c.auction] = CommitBid(@, bid)]
                /\ bids' = [bids EXCEPT ![c.auction] =
                       Append([k \in 1..Len(@) |->
                                  IF Some(@[k].id) = auctions[c.auction].highestBid
                                  THEN [@[k] EXCEPT !.status = "outbid"] ELSE @[k]],
                              bid)]
                /\ event' = Ev("placeBid", "bid", "none", "none")
                /\ placedOver' = Append(placedOver,
                       [price |-> auctions[c.auction].currentPrice,
                        highestBid |-> auctions[c.auction].highestBid])
                /\ UNCHANGED <<now, refundCalls, settleCalls>>

\* placeBid from the return of processBidPayment to its own return
PlaceBidResume(i, success) ==
    LET c == suspended[i]
        bid == NewBid(FreshBidId, c.wallet, c.amount)
    IN  /\ c.op = "placeBid"
        /\ success \in PaymentOutcomes(c.wallet)
        /\ suspended' = Remove(suspended, i)
        /\ IF ~success
           THEN /\ event' = Ev("placeBid", "null", "PaymentFailed", "none")
                /\ UNCHANGED <<auctions, bids, now, refundCalls, settleCalls, placedOver>>
           ELSE /\ auctions' = [auctions EXCEPT ![c.auction] = CommitBid(@, bid)]
                /\ bids' = [bids EXCEPT ![c.auction] = Append(@, bid)]
                /\ event' = Ev("placeBid", "bid", "none", "none")
                /\ placedOver' = Append(placedOver,
                       [price |-> auctions[c.auction].currentPrice,
                        highestBid |-> auctions[c.auction].highestBid])
                /\ UNCHANGED <<now, refundCalls, settleCalls>>

\* ---------------------------------------------------------------- endAuction
\* mutant: a set reserve counts as met whatever the amount
SettleByTransfer_IgnoresAmount(auction, highestAmount) ==
    /\ IsSet(auction.reservePrice)
    /\ Get(auction.reservePrice) # 0

\* auction.highestBid && auction.reservePrice &&
\*   auction.highestBid.amount >= auction.reservePrice   (0 and undefined are falsy)
SettleByTransfer(auction, highestAmount) ==
    /\ IsSet(auction.reservePrice)
    /\ Get(auction.reservePrice) # 0
    /\ highestAmount >= Get(auction.reservePrice)

\* endAuction up to its await of finalizeAuction / refundBid (or to its return
\* when there is no highest bid)
EndAuction(auctionId) ==
    IF ~Known(auctionId)
    THEN /\ event' = Ev("endAuction", "false", "AuctionNotFound", "none")
         /\ UNCHANGED <<auctions, bids, suspended, now, refundCalls, settleCalls, placedOver>>
    ELSE IF NotActive(auctions[auctionId])
    THEN /\ event' = Ev("endAuction", "false", "AuctionNotActive", "none")
         /\ UNCHANGED <<auctions, bids, suspended, now, refundCalls, settleCalls, placedOver>>
    ELSE IF ~IsSet(auctions[auctionId].highestBid)
    THEN /\ auctions' = [auctions EXCEPT ![auctionId].status = "ended"]
         /\ event' = Ev("endAuction", "true", "none", "none")
         /\ UNCHANGED <<bids, suspended, now, refundCalls, settleCalls, placedOver>>
    ELSE /\ Len(suspended) < MaxSuspended
         /\ auctions' = [auctions EXCEPT ![auctionId].status = "ended"]
         /\ suspended' = Append(suspended,
                Call("endAuction", Disconnected, auctionId,
                     Get(auctions[auctionId].highestBid), 0, 0))
         /\ settleCalls' = [settleCalls EXCEPT ![auctionId] = @ + 1]
         /\ IF SettleByTransfer(auctions[auctionId], HighestBidOf(auctionId).amount)
            THEN /\ event' = Ev("endAuction", "pending", "none", "finalizeAuction")
                 /\ UNCHANGED refundCalls
            ELSE /\ event' = Ev("endAuction", "pending", "none", "refundBid")
                 /\ refundCalls' = [refundCalls EXCEPT
                        ![Get(auctions[auctionId].highestBid)] = @ + 1]
         /\ UNCHANGED <<bids, now, placedOver>>

\* SolanaService.finalizeAuction / refundBid: true, or false from the catch
StubOutcomes == BOOLEAN

\* mutant: the stub's result is returned to the caller
EndAuctionResume_SurfacesFailure(i, stubResult) ==
    LET c == suspended[i]
    IN  /\ c.op = "endAuction"
        /\ stubResult \in StubOutcomes
        /\ suspended' = Remove(suspended, i)
        /\ event' = Ev("endAuction", IF stubResult THEN "true" ELSE "false", "none", "none")
        /\ UNCHANGED <<auctions, bids, now, refundCalls, settleCalls, placedOver>>

\* endAuction from the return of the adapter stub (its result is not read) to
\* its own return
EndAuctionResume(i, stubResult) ==
    LET c == suspended[i]
    IN  /\ c.op = "endAuction"
        /\ stubResult \in StubOutcomes
        /\ suspended' = Remove(suspended, i)
        /\ event' = Ev("endAuction", "true", "none", "none")
        /\ UNCHANGED <<auctions, bids, now, refundCalls, settleCalls, placedOver>>

\* ---------------------------------------------------------------- cancelBid
\* mutant: the bidder is not compared
HasBid_AnyBidder(a, bidId, publicKey) ==
    \E i \in 1..Len(bids[a]) : bids[a][i].id = bidId

HasBid(a, bidId, publicKey) ==
    \E i \in 1..Len(bids[a]) : bids[a][i].id = bidId /\ bids[a][i].bidder = publicKey

\* the first auction, in the map's insertion order, whose list holds a bid with
\* this id placed by this bidder; 0 when there is none
FindBid(bidId, publicKey) ==
    IF \E a \in 1..Len(bids) : HasBid(a, bidId, publicKey)
    THEN CHOOSE a \in 1..Len(bids) :
            /\ HasBid(a, bidId, publicKey)
            /\ \A a2 \in 1..(a - 1) : ~HasBid(a2, bidId, publicKey)
    ELSE 0

\* cancelBid up to its await of refundBid
CancelBid(wallet, bidId) ==
    IF ~WalletReady(wallet)
    THEN /\ event' = Ev("cancelBid", "false", "WalletNotConnected", "none")
         /\ UNCHANGED <<auctions, bids, suspended, now, refundCalls, settleCalls, placedOver>>
    ELSE LET auctionId == FindBid(bidId, Get(wallet.publicKey))
         IN  IF auctionId = 0
             THEN /\ event' = Ev("cancelBid", "false", "BidNotFound", "none")
                  /\ UNCHANGED <<auctions, bids, suspended, now, refundCalls, settleCalls,
                                 placedOver>>
             ELSE IF NotActive(auctions[auctionId])
             THEN /\ event' = Ev("cancelBid", "false", "AuctionNotActive", "none")
                  /\ UNCHANGED <<auctions, bids, suspended, now, refundCalls, settleCalls,
                                 placedOver>>
             ELSE /\ Len(suspended) < MaxSuspended
                  /\ SumOver(refundCalls) < MaxRefunds
                  /\ refundCalls' = [refundCalls EXCEPT ![bidId] = @ + 1]
                  /\ suspended' = Append(suspended,
                         Call("cancelBid", wallet, auctionId, bidId, 0, 0))
                  /\ event' = Ev("cancelBid", "pending", "none", "refundBid")
                  /\ UNCHANGED <<auctions, bids, now, settleCalls, placedOver>>

SetStatus(bidSeq, bidId, status) ==
    [i \in 1..Len(bidSeq) |->
        IF bidSeq[i].id = bidId THEN [bidSeq[i] EXCEPT !.status = status] ELSE bidSeq[i]]

\* activeBids.reduce((prev, current) => prev.amount > current.amount ? prev : current)
RECURSIVE Reduce(_, _)
Reduce(prev, rest) ==
    IF rest = <<>> THEN prev
    ELSE Reduce(IF prev.amount > Head(rest).amount THEN prev ELSE Head(rest), Tail(rest))

\* mutant: the first active bid is taken, not the greatest
NewHighestBid_First(activeBids) == Head(activeBids)

NewHighestBid(activeBids) == Reduce(Head(activeBids), Tail(activeBids))

ActiveBids(bidSeq) == SelectSeq(bidSeq, LAMBDA b : b.status = "active")

\* mutant: the highest bid is not recomputed
AfterCancel_KeepsHighest(auction, bidSeq, bidId) == auction

\* mutant: the price is not reset when no active bid is left
AfterCancel_KeepsPrice(auction, bidSeq, bidId) ==
    IF auction.highestBid = Some(bidId)
    THEN IF Len(ActiveBids(bidSeq)) > 0
         THEN [auction EXCEPT !.highestBid = Some(NewHighestBid(ActiveBids(bidSeq)).id),
                              !.currentPrice = NewHighestBid(ActiveBids(bidSeq)).amount]
         ELSE [auction EXCEPT !.highestBid = None]
    ELSE auction

\* the auction after cancelBid's update, given the auction's list after the
\* bid's status was set
AfterCancel(auction, bidSeq, bidId) ==
    IF auction.highestBid = Some(bidId)
    THEN IF Len(ActiveBids(bidSeq)) > 0
         THEN [auction EXCEPT !.highestBid = Some(NewHighestBid(ActiveBids(bidSeq)).id),
                              !.currentPrice = NewHighestBid(ActiveBids(bidSeq)).amount]
         ELSE [auction EXCEPT !.highestBid = None,
                              !.currentPrice = auction.startingPrice]
    ELSE auction

\* mutant: cancelBid finishes only when no payment is being awaited, as under a
\* lock that placeBid holds across its await
CancelBidResume_WaitsForPayments(i) ==
    LET c == suspended[i]
    IN  /\ c.op = "cancelBid"
        /\ PendingBids = 0
        /\ suspended' = Remove(suspended, i)
        /\ bids' = [bids EXCEPT ![c.auction] = SetStatus(@, c.bid, "cancelled")]
        /\ auctions' = [auctions EXCEPT ![c.auction] =
                            AfterCancel(@, SetStatus(bids[c.auction], c.bid, "cancelled"), c.bid)]
        /\ event' = Ev("cancelBid", "true", "none", "none")
        /\ UNCHANGED <<now, refundCalls, settleCalls, placedOver>>

\* cancelBid from the return of refundBid to its own return
CancelBidResume(i) ==
    LET c == suspended[i]
    IN  /\ c.op = "cancelBid"
        /\ suspended' = Remove(suspended, i)
        /\ bids' = [bids EXCEPT ![c.auction] = SetStatus(@, c.bid, "cancelled")]
        /\ auctions' = [auctions EXCEPT ![c.auction] =
                            AfterCancel(@, SetStatus(bids[c.auction], c.bid, "cancelled"), c.bid)]
        /\ event' = Ev("cancelBid", "true", "none", "none")
        /\ UNCHANGED <<now, refundCalls, settleCalls, placedOver>>

\* ---------------------------------------------------------------- time
Tick ==
    /\ now < MaxTime * MsPerHour
    /\ now' = now + MsPerHour
    /\ event' = Ev("tick", "none", "none", "none")
    /\ UNCHANGED <<auctions, bids, suspended, refundCalls, settleCalls, placedOver>>

\* ---------------------------------------------------------------- purchaseNFT
\* new PublicKey(seller) throws on a string that is not an address
ValidAddress(address) == address # "invalid"

\* the signature sendRawTransaction returns: fresh for every call
FreshSignature == broadcast + 1

\* the calls that have not reached sendRawTransaction's return yet
Unsent == Len(SelectSeq(purchases, LAMBDA p : p.signature = 0))

\* mutant: the confirmation is not awaited before the database is written
AfterAwait_SkipsConfirm(pc) ==
    CASE pc = "getLatestBlockhash" -> "signTransaction"
      [] pc = "signTransaction" -> "sendRawTransaction"
      [] pc = "sendRawTransaction" -> "updateNFT"
      [] pc = "confirmTransaction" -> "updateNFT"
      [] pc = "updateNFT" -> "createTransaction"
      [] pc = "createTransaction" -> "return"

\* the call awaited after the one that has just resolved, in purchaseNFT and
\* then in updateNFTOwnership
AfterAwait(pc) ==
    CASE pc = "getLatestBlockhash" -> "signTransaction"
      [] pc = "signTransaction" -> "sendRawTransaction"
      [] pc = "sendRawTransaction" -> "confirmTransaction"
      [] pc = "confirmTransaction" -> "updateNFT"
      [] pc = "updateNFT" -> "createTransaction"
      [] pc = "createTransaction" -> "return"

Purchase(wallet, nftId, seller) ==
    [wallet |-> wallet, nft |-> nftId, seller |-> seller,
     pc |-> "getLatestBlockhash", signature |-> 0, written |-> <<>>]

\* purchaseNFT up to its await of connection.getLatestBlockhash
PurchaseNFT(wallet, nftId, seller) ==
    IF ~IsSet(wallet.publicKey) \/ ~wallet.signTransaction
    THEN /\ event' = Ev("purchaseNFT", "null", "WalletNotConnected", "none")
         /\ UNCHANGED <<nfts, transactions, purchases, broadcast, confirmed>>
    ELSE IF ~ValidAddress(seller)
    THEN /\ event' = Ev("purchaseNFT", "null", "PurchaseFailed", "none")
         /\ UNCHANGED <<nfts, transactions, purchases, broadcast, confirmed>>
    ELSE /\ broadcast + Unsent < MaxPurchases
         /\ purchases' = Append(purchases, Purchase(wallet, nftId, seller))
         /\ event' = Ev("purchaseNFT", "pending", "none", "getLatestBlockhash")
         /\ UNCHANGED <<nfts, transactions, broadcast, confirmed>>

\* the NFTTransaction built once the transfer is confirmed, as the row that
\* createTransaction inserts
TransactionRow(p) ==
    [buyer |-> Get(p.wallet.publicKey), seller |-> p.seller, nft |-> p.nft,
     status |-> "completed", signature |-> p.signature]

\* one of getLatestBlockhash, signTransaction, sendRawTransaction and
\* confirmTransaction resolves (resolved) or rejects: a rejection lands in the
\* catch, which returns null
PurchaseResume(i, resolved) ==
    LET p == purchases[i]
        next == AfterAwait(p.pc)
    IN  /\ p.pc \in {"getLatestBlockhash", "signTransaction", "sendRawTransaction",
                      "confirmTransaction"}
        /\ IF ~resolved
           THEN /\ purchases' = Remove(purchases, i)
                /\ event' = Ev("purchaseNFT", "null", "PurchaseFailed", "none")
                /\ UNCHANGED <<nfts, transactions, broadcast, confirmed>>
           ELSE /\ purchases' = [purchases EXCEPT ![i] =
                       [@ EXCEPT !.pc = next,
                                 !.signature = IF p.pc = "sendRawTransaction"
                                               THEN FreshSignature ELSE @]]
                /\ broadcast' = IF p.pc = "sendRawTransaction"
                                THEN broadcast + 1 ELSE broadcast
                /\ confirmed' = IF p.pc = "confirmTransaction"
                                THEN confirmed \cup {p.signature} ELSE confirmed
                /\ event' = Ev("purchaseNFT", "pending", "none", next)
                /\ UNCHANGED <<nfts, transactions>>

\* SupabaseService.updateNFT / createTransaction resolves inside
\* updateNFTOwnership: the row was written (stored) or the service returned
\* null; either way updateNFTOwnership goes on and purchaseNFT returns the
\* transaction after the last one
DatabaseResume(i, stored) ==
    LET p == purchases[i]
        next == AfterAwait(p.pc)
    IN  /\ p.pc \in {"updateNFT", "createTransaction"}
        /\ nfts' = IF p.pc = "updateNFT" /\ stored
                   THEN [nfts EXCEPT ![p.nft] =
                            [owner |-> Get(p.wallet.publicKey), listed |-> FALSE]]
                   ELSE nfts
        /\ transactions' = IF p.pc = "createTransaction" /\ stored
                           THEN Append(transactions, TransactionRow(p))
                           ELSE transactions
        /\ IF next = "return"
           THEN /\ purchases' = Remove(purchases, i)
                /\ event' = Ev("purchaseNFT", "transaction", "none", "none")
           ELSE /\ purchases' = [purchases EXCEPT ![i] =
                       [@ EXCEPT !.pc = next, !.written = Append(@, p.pc)]]
                /\ event' = Ev("purchaseNFT", "pending", "none", next)
        /\ UNCHANGED <<broadcast, confirmed>>

Next ==
    \/ \E w \in Sellers, sp \in StartingPrices, d \in Durations, rp \in ReservePrices :
          CreateAuction(w, sp, d, rp) /\ UNCHANGED pvars
    \/ \E w \in Bidders, a \in AuctionIds, amt \in BidAmounts :
          PlaceBid(w, a, amt) /\ UNCHANGED pvars
    \/ \E i \in 1..Len(suspended), ok \in BOOLEAN : PlaceBidResume(i, ok) /\ UNCHANGED pvars
    \/ \E a \in AuctionIds : EndAuction(a) /\ UNCHANGED pvars
    \/ \E i \in 1..Len(suspended), ok \in StubOutcomes :
          EndAuctionResume(i, ok) /\ UNCHANGED pvars
    \/ \E w \in Wallets, b \in BidIds : CancelBid(w, b) /\ UNCHANGED pvars
    \/ \E i \in 1..Len(suspended) : CancelBidResume(i) /\ UNCHANGED pvars
    \/ Tick /\ UNCHANGED pvars

NextPurchase ==
    \/ \E w \in Buyers, n \in NftIds, s \in SellerAddresses :
          PurchaseNFT(w, n, s) /\ UNCHANGED bvars
    \/ \E i \in 1..Len(purchases), ok \in BOOLEAN : PurchaseResume(i, ok) /\ UNCHANGED bvars
    \/ \E i \in 1..Len(purchases), ok \in BOOLEAN : DatabaseResume(i, ok) /\ UNCHANGED bvars

Spec == Init /\ [][Next]_vars

\* the marketplace purchase on its own
SpecPurchase == Init /\ [][NextPurchase]_vars
\* ================================================================ claims
StoreUnchanged == UNCHANGED <<auctions, bids, suspended, refundCalls, settleCalls, placedOver>>

Elems(bidSeq) == {bidSeq[k] : k \in 1..Len(bidSeq)}

Actives(bidSeq) == {b \in Elems(bidSeq) : b.status = "active"}

BidSet(a) == Elems(bids[a])

ActiveSet(a) == Actives(bids[a])

C1_SecondRacer(i) ==
    LET c == suspended[i]
    IN  /\ c.op = "placeBid"
        /\ c.priceAtCall = 20
        /\ c.amount \in {30, 31}
        /\ auctions[c.auction].startingPrice = 20
        /\ Len(bids[c.auction]) = 1
        /\ bids[c.auction][1].status = "active"
        /\ bids[c.auction][1].amount \in {30, 31} \ {c.amount}

\* C1 (Scenario F): on an auction whose price is 2.0, two placeBid calls of 3.0
\* and 3.1 that both passed validation at 2.0 end with exactly one of them, the
\* 3.1 one, accepted and recorded as highest: when the second of the two
\* payment confirmations returns, no second bid is recorded, and the price is
\* 3.1 with a 3.1 bid as highestBid.
C1_ExactlyTheHigherBidWins ==
    [][\A i \in 1..Len(suspended) :
          (event'.op = "placeBid" /\ C1_SecondRacer(i) /\ PlaceBidResume(i, TRUE)) =>
              LET a == suspended[i].auction
              IN  /\ Len(bids'[a]) = 1
                  /\ auctions'[a].currentPrice = 31
                  /\ IsSet(auctions'[a].highestBid)
                  /\ \E b \in Elems(bids'[a]) :
                        b.id = Get(auctions'[a].highestBid) /\ b.amount = 31]_vars

\* C2: every auction's currentPrice is at least its startingPrice, in every
\* reachable state.
C2_PriceAtLeastStarting ==
    \A a \in 1..Len(auctions) : auctions[a].currentPrice >= auctions[a].startingPrice

C2_Witness ==
    \E a \in 1..Len(auctions) :
        /\ auctions[a].currentPrice > auctions[a].startingPrice
        /\ \E b \in BidSet(a) : b.status = "cancelled"

\* C3: placeBid passes validation, and later returns a bid, only with an amount
\* strictly above the currentPrice read at the call; a call with
\* amount <= currentPrice returns null, invokes no payment and changes neither
\* the auction nor the bid list (the rejection is BidTooLow when the earlier
\* checks pass).
C3_BidTooLowRejected ==
    [][/\ \A w \in Wallets, a \in AuctionIds, amt \in BidAmounts :
            (event'.op = "placeBid" /\ WalletReady(w) /\ Known(a) /\ PlaceBid(w, a, amt)) =>
                /\ event'.result = "pending" => amt > auctions[a].currentPrice
                /\ amt <= auctions[a].currentPrice =>
                      /\ event'.result = "null"
                      /\ event'.adapter = "none"
                      /\ StoreUnchanged
                      /\ (auctions[a].status = "active" /\ now <= auctions[a].endTime)
                            => event'.error = "BidTooLow"
       /\ \A i \in 1..Len(suspended) :
            (event'.result = "bid" /\ PlaceBidResume(i, TRUE)) =>
                suspended[i].amount > suspended[i].priceAtCall]_vars

C3_Witness ==
    /\ event.op = "placeBid"
    /\ event.error = "BidTooLow"
    /\ \E a \in 1..Len(auctions) :
          /\ auctions[a].totalBids >= 1
          /\ auctions[a].currentPrice \in BidAmounts

Terminal(a) == auctions[a].status \in {"ended", "cancelled"}

\* C4: a placeBid, endAuction or cancelBid invoked on an auction whose status
\* is ended or cancelled returns null / false and changes neither the auction
\* nor its bids.
C4_TerminalAuctionRejectsCalls ==
    [][(\E t \in 1..Len(auctions) : Terminal(t)) =>
         /\ \A w \in Wallets, a \in AuctionIds, amt \in BidAmounts :
              (event'.op = "placeBid" /\ Known(a) /\ Terminal(a) /\ PlaceBid(w, a, amt)) =>
                  (event'.result = "null" /\ event'.adapter = "none" /\ StoreUnchanged)
         /\ \A a \in AuctionIds :
              (event'.op = "endAuction" /\ Known(a) /\ Terminal(a) /\ EndAuction(a)) =>
                  (event'.result = "false" /\ event'.adapter = "none" /\ StoreUnchanged)
         /\ \A w \in Wallets, b \in BidIds :
              (/\ event'.op = "cancelBid"
               /\ \E a \in 1..Len(bids) : Terminal(a) /\ \E x \in BidSet(a) : x.id = b
               /\ CancelBid(w, b)) =>
                  (event'.result = "false" /\ event'.adapter = "none" /\ StoreUnchanged)]_vars

C4_Witness ==
    /\ event.op = "cancelBid"
    /\ event.error = "AuctionNotActive"
    /\ \E a \in 1..Len(auctions) : auctions[a].status = "ended" /\ Len(bids[a]) > 0

\* C5: an auction is created active, and its status changes only from active
\* to ended or cancelled: a status that is ended or cancelled never changes.
C5_StatusMonotonic ==
    [][/\ Len(auctions') >= Len(auctions)
       /\ \A a \in 1..Len(auctions) :
            /\ auctions'[a].status \in {"active", "ended", "cancelled"}
            /\ auctions[a].status # "active" => auctions'[a].status = auctions[a].status
       /\ \A a \in (Len(auctions) + 1)..Len(auctions') : auctions'[a].status = "active"]_vars

C5_Witness ==
    /\ event.op = "placeBid"
    /\ event.result = "bid"
    /\ \E a \in 1..Len(auctions) : auctions[a].status = "ended" /\ Len(bids[a]) > 0

\* C6: endAuction on an active auction with a highest bid invokes
\* finalizeAuction, and not refundBid, whenever reservePrice is unset or the
\* highest bid's amount is at least the reserve.
C6_FinalizeWhenReserveUnsetOrMet ==
    [][\A a \in AuctionIds :
          (/\ event'.op = "endAuction"
           /\ Known(a)
           /\ auctions[a].status = "active"
           /\ IsSet(auctions[a].highestBid)
           /\ \/ ~IsSet(auctions[a].reservePrice)
              \/ HighestBidOf(a).amount >= Get(auctions[a].reservePrice)
           /\ EndAuction(a))
          => event'.adapter = "finalizeAuction"]_vars

ReserveNotMet(a) ==
    /\ IsSet(auctions[a].highestBid)
    /\ IsSet(auctions[a].reservePrice)
    /\ HighestBidOf(a).amount < Get(auctions[a].reservePrice)

\* C7: finalizeAuction is never invoked for an auction whose reserve is set
\* and whose highest bid is below it; endAuction then sets status to ended and
\* invokes refundBid on the highest bid.
C7_ReserveNotMetRefunds ==
    [][/\ \A a \in AuctionIds :
            (/\ event'.op = "endAuction"
             /\ Known(a)
             /\ auctions[a].status = "active"
             /\ ReserveNotMet(a)
             /\ EndAuction(a)) =>
                /\ auctions'[a].status = "ended"
                /\ event'.adapter = "refundBid"
                /\ refundCalls'[Get(auctions[a].highestBid)] =
                       refundCalls[Get(auctions[a].highestBid)] + 1
       /\ event'.adapter = "finalizeAuction" =>
            \E a \in AuctionIds :
                Known(a) /\ auctions[a].status = "active" /\ ~ReserveNotMet(a) /\ EndAuction(a)]_vars

C7_Witness ==
    /\ event.op = "endAuction"
    /\ event.adapter = "refundBid"
    /\ \E a \in 1..Len(auctions) : auctions[a].status = "ended" /\ ReserveNotMet(a)
OnlyActiveBid(a, bidId) == \A b \in ActiveSet(a) : b.id = bidId

C8_Cancels(i) ==
    /\ event'.op = "cancelBid"
    /\ suspended[i].op = "cancelBid"
    /\ auctions[suspended[i].auction].status = "active"
    /\ ActiveSet(suspended[i].auction) # {}
    /\ OnlyActiveBid(suspended[i].auction, suspended[i].bid)
    /\ CancelBidResume(i)

C8_Reset(a, bidId) ==
    /\ \A b \in Elems(bids'[a]) : b.id = bidId => b.status = "cancelled"
    /\ auctions'[a].currentPrice = auctions[a].startingPrice
    /\ auctions'[a].highestBid = None

\* C8: cancelling the only active bid of an active auction sets the bid's
\* status to cancelled, resets currentPrice to startingPrice and clears
\* highestBid; these are the price and highestBid from before that bid was
\* placed whenever the auction had no highest bid then.
C8_CancelSoleBidResets ==
    [][\A i \in 1..Len(suspended) :
          C8_Cancels(i) =>
              LET a == suspended[i].auction
                  bidId == suspended[i].bid
              IN  /\ C8_Reset(a, bidId)
                  /\ placedOver[bidId].highestBid = None =>
                        /\ auctions'[a].currentPrice = placedOver[bidId].price
                        /\ auctions'[a].highestBid = placedOver[bidId].highestBid]_vars

\* C8 as stated: after the cancellation the price and highestBid are always
\* the ones from before that bid was placed.
C8_CancelSoleBidRestoresPrior ==
    [][\A i \in 1..Len(suspended) :
          C8_Cancels(i) =>
              LET a == suspended[i].auction
                  bidId == suspended[i].bid
              IN  /\ C8_Reset(a, bidId)
                  /\ auctions'[a].currentPrice = placedOver[bidId].price
                  /\ auctions'[a].highestBid = placedOver[bidId].highestBid]_vars

C8_Witness ==
    /\ event.op = "cancelBid"
    /\ event.result = "true"
    /\ \E a \in 1..Len(auctions) :
          /\ auctions[a].status = "active"
          /\ Len(bids[a]) = 1
          /\ ActiveSet(a) = {}
          /\ auctions[a].highestBid = None
          /\ auctions[a].currentPrice = auctions[a].startingPrice

\* C9: when cancelBid cancels the auction's highestBid and other active bids
\* remain, highestBid becomes an active bid of greatest amount among the
\* auction's bids and currentPrice that amount; cancelling a bid that is not
\* the highestBid leaves currentPrice and highestBid unchanged.
C9_CancelRecomputesHighest ==
    [][\A i \in 1..Len(suspended) :
          (event'.op = "cancelBid" /\ suspended[i].op = "cancelBid" /\ CancelBidResume(i)) =>
              LET a == suspended[i].auction
                  bidId == suspended[i].bid
              IN  IF auctions[a].highestBid = Some(bidId)
                  THEN (\E b \in ActiveSet(a) : b.id # bidId) =>
                          /\ IsSet(auctions'[a].highestBid)
                          /\ \E h \in Actives(bids'[a]) :
                                /\ h.id = Get(auctions'[a].highestBid)
                                /\ h.id # bidId
                                /\ \A b \in Actives(bids'[a]) : h.amount >= b.amount
                                /\ auctions'[a].currentPrice = h.amount
                  ELSE /\ auctions'[a].currentPrice = auctions[a].currentPrice
                       /\ auctions'[a].highestBid = auctions[a].highestBid]_vars

C9_Witness ==
    /\ event.op = "cancelBid"
    /\ event.result = "true"
    /\ \E a \in 1..Len(auctions) :
          /\ Len(bids[a]) = 2
          /\ bids[a][1].amount = 30 /\ bids[a][1].status = "active"
          /\ bids[a][2].amount = 31 /\ bids[a][2].status = "cancelled"
          /\ auctions[a].highestBid = Some(bids[a][1].id)
          /\ auctions[a].currentPrice = 30

\* C10: in every reachable state, an auction without a highestBid has
\* currentPrice = startingPrice, and an auction with one has
\* currentPrice = highestBid.amount.
C10_PriceMatchesHighestBid ==
    \A a \in 1..Len(auctions) :
        IF IsSet(auctions[a].highestBid)
        THEN /\ \E b \in BidSet(a) : b.id = Get(auctions[a].highestBid)
             /\ auctions[a].currentPrice = HighestBidOf(a).amount
        ELSE auctions[a].currentPrice = auctions[a].startingPrice

C10_Witness ==
    \E a \in 1..Len(auctions) :
        /\ IsSet(auctions[a].highestBid)
        /\ \E b \in ActiveSet(a) : b.amount > auctions[a].currentPrice
        /\ \E b \in BidSet(a) : b.status = "cancelled"
\* C11: when processBidPayment reports failure, placeBid returns null and the
\* auction's currentPrice, highestBid and totalBids and the bid list are what
\* they were before the call: neither the step up to the await nor the step
\* after it writes them.
C11_PaymentFailureChangesNothing ==
    [][/\ \A i \in 1..Len(suspended) :
            (event'.op = "placeBid" /\ suspended[i].op = "placeBid"
                /\ PlaceBidResume(i, FALSE)) =>
                /\ event'.result = "null"
                /\ event'.error = "PaymentFailed"
                /\ UNCHANGED <<auctions, bids, refundCalls, settleCalls, placedOver>>
       /\ event'.adapter = "processBidPayment" => UNCHANGED <<auctions, bids>>]_vars

C11_Witness ==
    /\ event.op = "placeBid"
    /\ event.error = "PaymentFailed"
    /\ \E a \in 1..Len(auctions) :
          auctions[a].status = "active" /\ auctions[a].totalBids = Len(bids[a])

\* C12: a placeBid refused because the wallet is not connected, the auction is
\* unknown, not active or expired returns null, invokes no payment and leaves
\* every auction and every bid list unchanged.
C12_EarlyRejectionChangesNothing ==
    [][\A w \in Wallets, a \in AuctionIds, amt \in BidAmounts :
          (/\ event'.op = "placeBid"
           /\ \/ ~(w.connected /\ IsSet(w.publicKey))
              \/ ~Known(a)
              \/ auctions[a].status # "active"
              \/ now > auctions[a].endTime
           /\ PlaceBid(w, a, amt)) =>
              /\ event'.result = "null"
              /\ event'.adapter = "none"
              /\ event'.error \in {"WalletNotConnected", "AuctionNotFound",
                                   "AuctionNotActive", "AuctionExpired"}
              /\ StoreUnchanged]_vars

C12_Witness ==
    /\ event.op = "placeBid"
    /\ event.error = "WalletNotConnected"
    /\ \E a \in 1..Len(auctions) : auctions[a].status = "active" /\ Len(bids[a]) > 0

\* C13: a placeBid at a time strictly after endTime is refused as expired
\* while status is still active; that refusal and the passage of time leave
\* every auction unchanged, the status changes only in endAuction, and a
\* placeBid at a time equal to endTime is not refused as expired.
C13_ExpiryIsLazy ==
    [][/\ \A w \in Wallets, a \in AuctionIds, amt \in BidAmounts :
            (/\ event'.op = "placeBid"
             /\ w.connected /\ IsSet(w.publicKey)
             /\ Known(a)
             /\ auctions[a].status = "active"
             /\ PlaceBid(w, a, amt)) =>
                /\ now > auctions[a].endTime =>
                      /\ event'.error = "AuctionExpired"
                      /\ event'.result = "null"
                      /\ auctions' = auctions
                /\ now = auctions[a].endTime => event'.error # "AuctionExpired"
       /\ now' # now => auctions' = auctions
       /\ \A a \in 1..Len(auctions) :
            auctions'[a].status # auctions[a].status => event'.op = "endAuction"]_vars

C13_Witness ==
    /\ event.op = "placeBid"
    /\ event.error = "AuctionExpired"
    /\ \E a \in 1..Len(auctions) :
          auctions[a].status = "active" /\ now > auctions[a].endTime

\* C14: cancelBid by a connected wallet whose address differs from the bid's
\* bidder returns false (BidNotFound), invokes no refund and changes neither
\* the bid nor the auction.
C14_OnlyTheBidderCancels ==
    [][\A w \in Wallets, b \in BidIds :
          (/\ event'.op = "cancelBid"
           /\ w.connected /\ IsSet(w.publicKey)
           /\ \E a \in 1..Len(bids) :
                 \E x \in BidSet(a) : x.id = b /\ x.bidder # Get(w.publicKey)
           /\ CancelBid(w, b)) =>
              /\ event'.result = "false"
              /\ event'.error = "BidNotFound"
              /\ event'.adapter = "none"
              /\ StoreUnchanged]_vars

C14_Witness ==
    /\ event.op = "cancelBid"
    /\ event.error = "BidNotFound"
    /\ SumLen(bids) = MaxBids
    /\ \E a \in 1..Len(auctions) : auctions[a].status = "active"

\* C15: after every step each auction's totalBids is the length of its bid
\* list; a step never shortens the list or lowers totalBids, and a recorded
\* bid raises both by exactly one.
C15_TotalBidsCountsTheList ==
    [][/\ \A a \in 1..Len(auctions') : auctions'[a].totalBids = Len(bids'[a])
       /\ \A a \in 1..Len(auctions) :
            /\ auctions'[a].totalBids >= auctions[a].totalBids
            /\ Len(bids'[a]) >= Len(bids[a])
            /\ event'.result = "bid" /\ bids'[a] # bids[a] =>
                  auctions'[a].totalBids = auctions[a].totalBids + 1]_vars

C15_Witness ==
    \E a \in 1..Len(auctions) :
        /\ auctions[a].totalBids = 2
        /\ auctions[a].status = "ended"
        /\ \E b \in BidSet(a) : b.status = "cancelled"

\* C16: endAuction on an active auction sets status to ended and returns
\* true on the finalize path, on the refund path and with no bid at all,
\* whatever the adapter stub returns; with no highest bid no adapter is
\* invoked.
C16_EndAuctionAlwaysSucceeds ==
    [][/\ \A a \in AuctionIds :
            (/\ event'.op = "endAuction"
             /\ Known(a)
             /\ auctions[a].status = "active"
             /\ EndAuction(a)) =>
                /\ auctions'[a].status = "ended"
                /\ IF IsSet(auctions[a].highestBid)
                   THEN /\ event'.result = "pending"
                        /\ event'.adapter \in {"finalizeAuction", "refundBid"}
                   ELSE /\ event'.result = "true"
                        /\ event'.adapter = "none"
                        /\ UNCHANGED <<refundCalls, settleCalls, suspended>>
       /\ \A i \in 1..Len(suspended), ok \in BOOLEAN :
            (/\ event'.op = "endAuction"
             /\ suspended[i].op = "endAuction"
             /\ EndAuctionResume(i, ok)) =>
                /\ event'.result = "true"
                /\ auctions'[suspended[i].auction].status = "ended"]_vars

C16_Witness ==
    /\ event.op = "endAuction"
    /\ event.result = "true"
    /\ \E a \in 1..Len(auctions) :
          auctions[a].status = "ended" /\ IsSet(auctions[a].highestBid)

C18_EndAfterStart ==
    \A a \in 1..Len(auctions) : auctions[a].endTime > auctions[a].startTime

\* C19: when a bid is recorded (made highestBid and appended) its amount is
\* strictly above the auction's currentPrice at that moment, so recording a
\* bid never lowers currentPrice.
C19_CommitAbovePrice ==
    [][\A i \in 1..Len(suspended) :
          (/\ event'.result = "bid"
           /\ suspended[i].op = "placeBid"
           /\ PlaceBidResume(i, TRUE)) =>
              /\ suspended[i].amount > auctions[suspended[i].auction].currentPrice
              /\ auctions'[suspended[i].auction].currentPrice >=
                    auctions[suspended[i].auction].currentPrice]_vars

\* C20: in every reachable state an auction with an active bid has a
\* highestBid that is an active bid of greatest amount among its active bids,
\* and an auction with no active bid has no highestBid.
C20_HighestIsMaxActive ==
    \A a \in 1..Len(auctions) :
        IF ActiveSet(a) # {}
        THEN /\ IsSet(auctions[a].highestBid)
             /\ \E h \in ActiveSet(a) :
                   /\ h.id = Get(auctions[a].highestBid)
                   /\ \A b \in ActiveSet(a) : h.amount >= b.amount
        ELSE ~IsSet(auctions[a].highestBid)
C21_FirstOfMax(bidSeq) ==
    CHOOSE k \in 1..Len(bidSeq) :
        /\ bidSeq[k].status = "active"
        /\ \A j \in 1..Len(bidSeq) :
              bidSeq[j].status = "active" =>
                 /\ bidSeq[j].amount <= bidSeq[k].amount
                 /\ bidSeq[j].amount = bidSeq[k].amount => k <= j

\* C21: when cancelBid recomputes the highest bid, the new highestBid is the
\* first bid of the auction's list among the active bids of greatest amount.
C21_FirstTiedBidWins ==
    [][\A i \in 1..Len(suspended) :
          (/\ event'.op = "cancelBid"
           /\ suspended[i].op = "cancelBid"
           /\ auctions[suspended[i].auction].highestBid = Some(suspended[i].bid)
           /\ CancelBidResume(i)
           /\ Actives(bids'[suspended[i].auction]) # {}) =>
              auctions'[suspended[i].auction].highestBid =
                 Some(bids'[suspended[i].auction]
                          [C21_FirstOfMax(bids'[suspended[i].auction])].id)]_vars

\* C22: every bid has status active or cancelled after every step; a bid's
\* status changes only in cancelBid, never when a higher bid is recorded and
\* never in endAuction, and a bid is recorded as active.
C22_BidStatusOnlyByCancel ==
    [][\A a \in 1..Len(bids) :
          /\ \A k \in 1..Len(bids'[a]) : bids'[a][k].status \in {"active", "cancelled"}
          /\ \A k \in 1..Len(bids[a]) :
                bids'[a][k].status # bids[a][k].status => event'.op = "cancelBid"
          /\ \A k \in (Len(bids[a]) + 1)..Len(bids'[a]) : bids'[a][k].status = "active"]_vars

C22_Witness ==
    \E a \in 1..Len(auctions) :
        /\ auctions[a].status = "ended"
        /\ \E b1, b2 \in ActiveSet(a) :
              /\ b1.amount < b2.amount
              /\ b1.id < b2.id
        /\ \E b3 \in BidSet(a) : b3.status = "cancelled"

\* C25: for each auction endAuction invokes its settlement step
\* (finalizeAuction or the refund of the highest bid) at most once.
C25_SettledAtMostOnce ==
    \A a \in AuctionIds : settleCalls[a] <= 1

C25_Witness ==
    /\ event.op = "endAuction"
    /\ event.error = "AuctionNotActive"
    /\ \E a \in 1..Len(auctions) : settleCalls[a] = 1

\* C26: once an auction's status is ended, its currentPrice, highestBid and
\* totalBids, its bid list and the status of its bids never change again.
C26_EndedAuctionFrozen ==
    [][\A a \in 1..Len(auctions) :
          auctions[a].status = "ended" =>
             /\ auctions'[a] = auctions[a]
             /\ bids'[a] = bids[a]]_vars

\* C27: refundBid is invoked at most once for any bid.
C27_RefundedAtMostOnce ==
    \A b \in BidIds : refundCalls[b] <= 1

\* C28: in every reachable state a set highestBid is the id of a bid in the
\* auction's list whose status is active.
C28_HighestBidIsActive ==
    \A a \in 1..Len(auctions) :
        IsSet(auctions[a].highestBid) =>
            \E b \in BidSet(a) :
                /\ b.id = Get(auctions[a].highestBid)
                /\ b.status = "active"

C28_Witness ==
    \E a \in 1..Len(auctions) :
        /\ IsSet(auctions[a].highestBid)
        /\ \E b \in BidSet(a) :
              /\ b.status = "cancelled"
              /\ b.amount > auctions[a].currentPrice
        /\ \E c \in BidSet(a) : c.status = "cancelled" /\ c.amount <= auctions[a].currentPrice

C29_EndCompleted(a) ==
    /\ auctions[a].status = "ended"
    /\ \A i \in 1..Len(suspended) :
          ~(suspended[i].op = "endAuction" /\ suspended[i].auction = a)

\* C29: when endAuction has completed, refundBid has been invoked for every
\* bid of the auction's list (each was paid into escrow) other than the
\* highest bid that was settled by finalizeAuction.
C29_LosersRefunded ==
    \A a \in 1..Len(auctions) :
        C29_EndCompleted(a) =>
            \A b \in BidSet(a) :
                \/ refundCalls[b.id] >= 1
                \/ /\ auctions[a].highestBid = Some(b.id)
                   /\ SettleByTransfer(auctions[a], b.amount)

\* C30: no bid in an auction's list has a timestamp later than the auction's
\* endTime.
C30_NoBidAfterEndTime ==
    \A a \in 1..Len(auctions) :
        \A b \in BidSet(a) : b.timestamp <= auctions[a].endTime
C23_CanFinish(j) ==
    CASE suspended[j].op = "placeBid" -> ENABLED PlaceBidResume(j, FALSE)
      [] suspended[j].op = "endAuction" -> ENABLED EndAuctionResume(j, TRUE)
      [] suspended[j].op = "cancelBid" -> ENABLED CancelBidResume(j)

\* C23: while a placeBid waits for its payment confirmation, every other call
\* that is waiting on the same auction can finish, and, as long as the
\* model's bounds on calls in flight, bids and refunds leave room, a further
\* placeBid, endAuction or cancelBid can be started: the waiting placeBid
\* blocks nothing but itself.
C23_SuspendedBidBlocksNothing ==
    \A i \in 1..Len(suspended) :
        suspended[i].op = "placeBid" =>
            /\ \A j \in 1..Len(suspended) : j # i => C23_CanFinish(j)
            /\ Len(suspended) < MaxSuspended =>
                  /\ ENABLED EndAuction(suspended[i].auction)
                  /\ SumLen(bids) + PendingBids < MaxBids =>
                        \A w \in Bidders, amt \in BidAmounts :
                            ENABLED PlaceBid(w, suspended[i].auction, amt)
                  /\ SumOver(refundCalls) < MaxRefunds =>
                        \A w \in Wallets, b \in BidIds : ENABLED CancelBid(w, b)

C23_Witness ==
    /\ \E i \in 1..Len(suspended) :
          suspended[i].op = "placeBid" /\ suspended[i].priceAtCall = 20
    /\ event.op = "endAuction"
    /\ event.result = "true"
    /\ \E a \in 1..Len(auctions) :
          /\ auctions[a].status = "ended"
          /\ \E b \in BidSet(a) : b.status = "cancelled"

\* C24: in purchaseNFT the owner update (owner := buyer, unlisted) and the
\* insert of the transaction record are made only for a transfer that has
\* been confirmed, the update before the insert; when getLatestBlockhash,
\* signing, broadcast or confirmation fails, purchaseNFT returns null and
\* neither table is written.
C24_DatabaseAfterConfirmation ==
    [][/\ nfts' # nfts =>
            \E i \in 1..Len(purchases) :
                /\ purchases[i].pc = "updateNFT"
                /\ purchases[i].signature \in confirmed
                /\ purchases[i].written = <<>>
                /\ \A k \in 1..Len(transactions) :
                      transactions[k].signature # purchases[i].signature
                /\ nfts' = [nfts EXCEPT ![purchases[i].nft] =
                               [owner |-> Get(purchases[i].wallet.publicKey),
                                listed |-> FALSE]]
       /\ transactions' # transactions =>
            \E i \in 1..Len(purchases) :
                /\ purchases[i].pc = "createTransaction"
                /\ purchases[i].signature \in confirmed
                /\ purchases[i].written = <<"updateNFT">>
                /\ transactions' = Append(transactions, TransactionRow(purchases[i]))
       /\ \A i \in 1..Len(purchases) :
            (event'.op = "purchaseNFT" /\ PurchaseResume(i, FALSE)) =>
                /\ event'.result = "null"
                /\ UNCHANGED <<nfts, transactions>>
                /\ \A k \in 1..Len(transactions) :
                      purchases[i].signature = 0
                         \/ transactions[k].signature # purchases[i].signature
       /\ (event'.op = "purchaseNFT" /\ event'.result = "null") =>
             UNCHANGED <<nfts, transactions>>]_vars

C24_Witness ==
    /\ event.op = "purchaseNFT"
    /\ event.result = "transaction"
    /\ \E k \in 1..Len(transactions) :
          /\ transactions[k].signature \in confirmed
          /\ nfts[transactions[k].nft] = [owner |-> transactions[k].buyer, listed |-> FALSE]
    /\ broadcast = 2
    /\ Cardinality(confirmed) = 1
====
